---- MODULE Spec2Model ----
(***************************************************************************)
(* A model of file_organizer.py: the classification-driven reorganisation  *)
(* pipeline (main, FileContentAnalyzer, IntelligentFileOrganizer).         *)
(*                                                                         *)
(* Text is modelled as a sequence of tokens, so that concatenation         *)
(* (f-strings), splitting (path separators, stem and suffix) and searching *)
(* (the regular expression of the response parser) are computed and not    *)
(* assumed.  A one-token string such as "Media" is <<"Media">>, the empty  *)
(* string is << >>.  A path is a sequence of names relative to the target  *)
(* directory, a name is a string.                                          *)
(***************************************************************************)
EXTENDS Integers, Sequences, FiniteSets, TLC

\* Bounds of the model.
MaxFiles == 3       \* discovered files of one run
MaxBatch == 2       \* files of one batch of the classifier specification
MaxTextLen == 3     \* tokens of a response text's shape

Str(t) == <<t>>

Range(s) == {s[i] : i \in 1..Len(s)}

Min(S) == CHOOSE n \in S : \A m \in S : n <= m

Max(S) == CHOOSE n \in S : \A m \in S : m <= n

SeqsUpTo(S, n) == UNION {[1..k -> S] : k \in 0..n}

RECURSIVE Concat(_)
Concat(ss) == IF ss = <<>> THEN <<>> ELSE Head(ss) \o Concat(Tail(ss))

(***************************************************************************)
(* The classification service's response text.  A token is punctuation     *)
(* ("{", "}"), a stretch of prose without braces ("p"), or one             *)
(* "key": value member of a JSON object (commas are implied).              *)
(***************************************************************************)
Punct(c) == [k |-> c, v |-> <<>>]

Field(key, value) == [k |-> key, v |-> value]

IsField(tok) == tok.k \notin {"{", "}", "p"}

\* dict.get(key, default)
Get(d, key, default) == IF key \in DOMAIN d THEN d[key] ELSE default

\* d[key] = value on a dict kept as a function
DictSet(d, key, value) == (key :> value) @@ d

\* re.search(r'\{.*\}', response_text, re.DOTALL): the leftmost "{" and, the
\* star being greedy and the dot matching everything, the last "}" after it.
\* <<0, 0>> stands for no match.
JsonMatch(text) ==
    LET opens == {i \in 1..Len(text) : text[i].k = "{"}
        closes == {j \in 1..Len(text) : text[j].k = "}"}
    IN IF opens = {} \/ closes = {} \/ Max(closes) < Min(opens)
       THEN <<0, 0>>
       ELSE <<Min(opens), Max(closes)>>

\* A decoder that skips what it cannot read between the braces
JsonDecodableLenient(s) == Len(s) >= 2

\* Whether json.loads accepts the matched text (which starts with "{" and ends
\* with "}"): an object's members, and nothing else, between the two braces.
JsonDecodable(s) ==
    /\ Len(s) >= 2
    /\ s[1].k = "{"
    /\ s[Len(s)].k = "}"
    /\ \A i \in 2..(Len(s) - 1) : IsField(s[i])

\* json.loads of a decodable text: the dict of its members, a repeated key
\* keeping its last value.
RECURSIVE JsonMembers(_, _)
JsonMembers(toks, d) ==
    IF toks = <<>> THEN d
    ELSE JsonMembers(Tail(toks), DictSet(d, Head(toks).k, Head(toks).v))

JsonLoads(s) == JsonMembers(SubSeq(s, 2, Len(s) - 1), <<>>)

ParseFallback ==
    [category |-> Str("Uncategorized"), subcategory |-> Str("Analysis Failed"),
     confidence |-> 0, reason |-> Str("Could not parse AI response")]

ErrorFallback ==
    [category |-> Str("Uncategorized"), subcategory |-> Str("Error"),
     confidence |-> 0, reason |-> Str("Analysis failed")]

\* A reply of the service is [failed, text]: failed when client.chat (or the
\* subscripting of its response) raises, the response text otherwise.
AnalyzeContentForCategory(reply) ==
    IF reply.failed THEN ErrorFallback
    ELSE LET m == JsonMatch(reply.text)
         IN IF m # <<0, 0>>
            THEN LET s == SubSeq(reply.text, m[1], m[2])
                 IN IF JsonDecodable(s) THEN JsonLoads(s) ELSE ErrorFallback
            ELSE ParseFallback

(***************************************************************************)
(* generate_organization_proposal.  analysis_results is the dict of        *)
(* analyze_all_content, kept as the sequence of its items in insertion     *)
(* order; the proposal is the sequence of its (folder, files) items in     *)
(* insertion order.                                                        *)
(***************************************************************************)
Sentinels == {Str("Unknown"), Str("Analysis Failed"), Str("Error")}

\* The folder key with "Error" missing from the list of sentinels
FolderStructureErrorKept(analysis) ==
    LET category == Get(analysis, "category", Str("Uncategorized"))
        subcategory == Get(analysis, "subcategory", <<>>)
    IN IF subcategory # <<>> /\ subcategory \notin {Str("Unknown"), Str("Analysis Failed")}
       THEN category \o Str("/") \o subcategory
       ELSE category

FolderStructure(analysis) ==
    LET category == Get(analysis, "category", Str("Uncategorized"))
        subcategory == Get(analysis, "subcategory", <<>>)
    IN IF subcategory # <<>> /\ subcategory \notin Sentinels
       THEN category \o Str("/") \o subcategory
       ELSE category

\* analysis_results[file_path] = analysis
ResultsSet(results, path, analysis) ==
    IF \E i \in 1..Len(results) : results[i].path = path
    THEN [i \in 1..Len(results) |->
            IF results[i].path = path
            THEN [path |-> path, analysis |-> analysis] ELSE results[i]]
    ELSE Append(results, [path |-> path, analysis |-> analysis])

\* The folder's list assigned anew instead of appended to
ProposalAppendReplacing(prop, folder, entry) ==
    IF \E i \in 1..Len(prop) : prop[i].folder = folder
    THEN [i \in 1..Len(prop) |->
            IF prop[i].folder = folder
            THEN [folder |-> folder, files |-> <<entry>>]
            ELSE prop[i]]
    ELSE Append(prop, [folder |-> folder, files |-> <<entry>>])

\* organization_proposal[folder].append(entry), the folder made on first use
ProposalAppend(prop, folder, entry) ==
    IF \E i \in 1..Len(prop) : prop[i].folder = folder
    THEN [i \in 1..Len(prop) |->
            IF prop[i].folder = folder
            THEN [folder |-> folder, files |-> Append(prop[i].files, entry)]
            ELSE prop[i]]
    ELSE Append(prop, [folder |-> folder, files |-> <<entry>>])

RECURSIVE ProposalFrom(_, _)
ProposalFrom(results, prop) ==
    IF results = <<>> THEN prop
    ELSE LET item == Head(results)
             entry == [path |-> item.path,
                       reason |-> Get(item.analysis, "reason", <<>>)]
         IN ProposalFrom(Tail(results),
                         ProposalAppend(prop, FolderStructure(item.analysis), entry))

GenerateOrganizationProposal(results) == ProposalFrom(results, <<>>)

(***************************************************************************)
(* Names and paths.  A token that starts with a dot is listed in           *)
(* DotTokens; Path.suffix and the hidden-entry test read it.               *)
(***************************************************************************)
DotTokens == {".txt", ".env", ".git", ".db", ".ini"}

\* str.startswith('.')
StartsWithDot(name) == name # <<>> /\ name[1] \in DotTokens

\* Path.suffix: the name from its last dot on, unless that dot starts the name
Suffix(name) ==
    LET dots == {i \in 2..Len(name) : name[i] \in DotTokens}
    IN IF dots = {} THEN <<>> ELSE SubSeq(name, Max(dots), Len(name))

\* Path.stem: the name without its suffix
Stem(name) == SubSeq(name, 1, Len(name) - Len(Suffix(name)))

\* Path.name and Path.parent
Name(path) == path[Len(path)]

Parent(path) == SubSeq(path, 1, Len(path) - 1)

IsPrefix(p, q) == Len(p) <= Len(q) /\ SubSeq(q, 1, Len(p)) = p

\* The names of a "/"-separated string, as pathlib splits it when it is joined
\* to a directory (empty names dropped).
RECURSIVE SplitSlash(_, _)
SplitSlash(s, cur) ==
    IF s = <<>> THEN (IF cur = <<>> THEN <<>> ELSE <<cur>>)
    ELSE IF Head(s) = "/"
         THEN (IF cur = <<>> THEN <<>> ELSE <<cur>>) \o SplitSlash(Tail(s), <<>>)
         ELSE SplitSlash(Tail(s), Append(cur, Head(s)))

\* self.target_directory / "organized_by_content"
OrganizedDirectory == <<Str("organized_by_content")>>

\* organized_directory / folder_name
TargetFolder(folder_name) == OrganizedDirectory \o SplitSlash(folder_name, <<>>)

\* f"{stem}_{counter}{suffix}"
CounterName(stem, counter, suffix) == stem \o Str("_" \o ToString(counter)) \o suffix

(***************************************************************************)
(* discover_all_files: os.walk, top down, without hidden and tooling       *)
(* directories and without hidden and system files.  The order in which a  *)
(* directory lists its entries is the operating system's.                  *)
(***************************************************************************)
SkippedDirs == {Str("__pycache__"), Str("node_modules")}

SkippedFiles == {<<"Thumbs", ".db">>, <<"Desktop", ".ini">>}

Eligible(fileSet) ==
    {p \in fileSet :
        /\ \A i \in 1..(Len(p) - 1) : ~StartsWithDot(p[i]) /\ p[i] \notin SkippedDirs
        /\ ~StartsWithDot(Name(p))
        /\ Name(p) \notin SkippedFiles}

\* The orders os.walk can produce: a directory's own files come before those of
\* the directories below it, and every subtree is walked without interruption.
IsWalkOrder(s) ==
    /\ \A i, j \in 1..Len(s) :
          i < j => ~(Parent(s[j]) # Parent(s[i]) /\ IsPrefix(Parent(s[j]), Parent(s[i])))
    /\ \A i, j, k \in 1..Len(s) :
          (i < j /\ j < k) =>
             \A n \in 0..Len(Parent(s[i])) :
                LET d == SubSeq(s[i], 1, n)
                IN IsPrefix(d, Parent(s[k])) => IsPrefix(d, Parent(s[j]))

DiscoverAllFiles(fileSet) ==
    LET E == Eligible(fileSet)
        n == Cardinality(E)
    IN {s \in [1..n -> E] : Range(s) = E /\ IsWalkOrder(s)}

(***************************************************************************)
(* The state of one run of main.                                           *)
(***************************************************************************)
VARIABLES
    pc,               \* the statement of main (or of the method it called) to run next
    argv,             \* the flags given on the command line
    interactive,      \* main's parameter of that name, as click passes it
    files,            \* the filesystem below the target directory: regular files
    dirs,             \* ... and directories
    files0,           \* the regular files at the start of the run
    dirs0,            \* the directories at the start of the run
    checks,           \* calls of verify_local_ai_connection made
    all_files,        \* discover_all_files' list
    idx,              \* analyze_all_content's position in it
    reply,            \* the service's reply to the request in progress
    returned,         \* what analyze_content_for_category returned for it
    analysis_results, \* analyze_all_content's dict
    proposal,         \* generate_organization_proposal's dict
    gate,             \* the approval gate: AwaitingDecision, Approved, Rejected
    answers,          \* what each call of request_sorting_policy_approval returned
    executions,       \* calls of execute_organization_plan made
    fi,               \* execute_organization_plan's position in the proposal
    fj,               \* ... and in the folder's files
    outcomes,         \* the line the engine printed for each file it handled
    exit_status,      \* the process's exit status, -1 while it runs
    ending            \* why main ended

vars == <<pc, argv, interactive, files, dirs, files0, dirs0, checks, all_files,
          idx, reply, returned, analysis_results, proposal, gate, answers, executions,
          fi, fj, outcomes, exit_status, ending>>

headless == "--headless" \in argv

\* The flag not passed on to execute_organization_plan
DryRunDropped == FALSE

\* dry_run, as main passes it to execute_organization_plan
dry_run == "--dry-run" \in argv

\* mode = not headless
Mode == ~headless

\* The value click passes for --interactive (is_flag=True, default=True): the
\* default when the flag is absent; when it is given, click's flag value, which is
\* "not default" in some releases of click and True in others.
InteractiveValues(flags) ==
    IF "--interactive" \in flags THEN BOOLEAN ELSE {TRUE}

\* if headless and interactive: sys.exit(1)
ModeConflict(h, i) == h /\ i

\* verify_local_ai_connection: listing the models raises or not, the model is
\* among them or is pulled, and pulling raises or not.
VerifyLocalAiConnection(listOk, present, pullOk) == listOk /\ (present \/ pullOk)

\* The answer ignored
GateAlwaysApproved(mode, answer) == "Approved"

\* request_sorting_policy_approval's answer decides in interactive mode; headless
\* mode proceeds.
GateDecision(mode, answer) ==
    IF mode THEN (IF answer THEN "Approved" ELSE "Rejected") ELSE "Approved"

(***************************************************************************)
(* The filesystem operations of execute_organization_plan.                 *)
(***************************************************************************)
\* Existence as it was when the run started
ExistsAtStart(path) == path \in files0 \cup dirs0

\* target_path.exists()
Exists(path) == path \in files \cup dirs

\* Path.mkdir raises when the path, or with parents=True one of the directories
\* above it, is a regular file.
MkdirBlocked(path, parents) ==
    \E n \in 1..Len(path) : (parents \/ n = Len(path)) /\ SubSeq(path, 1, n) \in files

\* The directories Path.mkdir has made when it returns or raises: those of the
\* path down to the first name that is a regular file.
MkdirMade(path) ==
    {SubSeq(path, 1, n) : n \in {m \in 1..Len(path) :
                                    \A k \in 1..m : SubSeq(path, 1, k) \notin files}}

\* The loop of lines 294-302: the first free name among name, stem_1suffix,
\* stem_2suffix, ...
RECURSIVE ResolveLoop(_, _, _, _)
ResolveLoop(target_folder, file_name, target_path, counter) ==
    IF Exists(target_path)
    THEN ResolveLoop(target_folder, file_name,
                     Append(target_folder,
                            CounterName(Stem(file_name), counter, Suffix(file_name))),
                     counter + 1)
    ELSE target_path

ResolveTarget(target_folder, file_path) ==
    ResolveLoop(target_folder, Name(file_path),
                Append(target_folder, Name(file_path)), 1)

\* shutil.move(src, dst), dst not existing: a rename
MovedFiles(src, dst) == (files \ {src}) \cup {dst}

(***************************************************************************)
(* The directory trees and the service replies of the pipeline's runs.     *)
(***************************************************************************)
ReportTxt == <<"report", ".txt">>

\* Entries every tree holds: none of them is discovered.
FixedFiles == {<<Str(".env")>>, <<Str(".git"), Str("config")>>, <<<<"Thumbs", ".db">>>>}

\* Regular files a tree may hold: report.txt in three directories, a report.txt
\* that an earlier run left in organized_by_content/Media, a regular file that
\* is itself named organized_by_content, and a file named Photos.
OptionalFiles ==
    {<<ReportTxt>>, <<Str("a"), ReportTxt>>, <<Str("b"), ReportTxt>>,
     OrganizedDirectory \o <<Str("Media"), ReportTxt>>,
     OrganizedDirectory,
     <<Str("Photos")>>}

\* Directories a tree may hold besides those its files are in: a directory named
\* report.txt in organized_by_content/Media.
OptionalDirs == {OrganizedDirectory \o <<Str("Media"), ReportTxt>>}

Ancestors(path) == {SubSeq(path, 1, n) : n \in 1..(Len(path) - 1)}

Trees ==
    {t \in [files : SUBSET (FixedFiles \cup OptionalFiles), dirs : SUBSET OptionalDirs] :
        /\ FixedFiles \subseteq t.files
        /\ Cardinality(Eligible(t.files)) <= MaxFiles
        /\ t.files \cap t.dirs = {}
        /\ \A p \in t.files \cup t.dirs : Ancestors(p) \cap t.files = {}}

Members(category, subcategory, confidence, reason) ==
    <<Field("category", category), Field("subcategory", subcategory),
      Field("confidence", confidence), Field("reason", reason)>>

TextReply(text) == [failed |-> FALSE, text |-> text]

FailedReply == [failed |-> TRUE, text |-> <<>>]

\* The replies of the service in the pipeline's runs: prose without an object,
\* an object alone, and an object inside prose.
PipelineReplies ==
    {TextReply(<<Punct("p")>>),
     TextReply(<<Punct("{")>>
               \o Members(Str("Media"), Str("Photos"), 85, Str("image"))
               \o <<Punct("}")>>),
     TextReply(<<Punct("p"), Punct("{")>>
               \o Members(Str("Media"), Str("Unknown"), 60, Str("image"))
               \o <<Punct("}"), Punct("p")>>)}

NoReply == [failed |-> FALSE, text |-> <<>>]

NoOutcomeTarget == <<>>

Init ==
    /\ pc = "main"
    /\ argv \in SUBSET {"--headless", "--interactive", "--dry-run"}
    /\ interactive \in InteractiveValues(argv)
    /\ \E t \in Trees :
          /\ files = t.files
          /\ dirs = t.dirs \cup UNION {Ancestors(p) : p \in t.files \cup t.dirs}
    /\ files0 = files
    /\ dirs0 = dirs
    /\ checks = 0
    /\ all_files = <<>>
    /\ idx = 1
    /\ reply = NoReply
    /\ returned = <<>>
    /\ analysis_results = <<>>
    /\ proposal = <<>>
    /\ gate = "AwaitingDecision"
    /\ answers = <<>>
    /\ executions = 0
    /\ fi = 1
    /\ fj = 1
    /\ outcomes = <<>>
    /\ exit_status = -1
    /\ ending = "running"

\* sys.exit(status), a return from main (status 0), or an exception that nothing
\* catches (status 1)
Exit(status, why) ==
    /\ pc' = "exit"
    /\ exit_status' = status
    /\ ending' = why

Running(next) ==
    /\ pc' = next
    /\ UNCHANGED <<exit_status, ending>>

\* main, lines 331-337
CheckMode ==
    /\ pc = "main"
    /\ IF ModeConflict(headless, interactive)
       THEN Exit(1, "mode conflict")
       ELSE Running("verify")
    /\ UNCHANGED <<argv, interactive, files, dirs, files0, dirs0, checks, all_files,
                   idx, reply, returned, analysis_results, proposal, gate, answers,
                   executions, fi, fj, outcomes>>

\* main, lines 357-365
Verify ==
    /\ pc = "verify"
    /\ checks' = checks + 1
    /\ \E listOk, present, pullOk \in BOOLEAN :
          IF VerifyLocalAiConnection(listOk, present, pullOk)
          THEN Running("discover")
          ELSE Exit(1, "preflight failed")
    /\ UNCHANGED <<argv, interactive, files, dirs, files0, dirs0, all_files,
                   idx, reply, returned, analysis_results, proposal, gate, answers,
                   executions, fi, fj, outcomes>>

\* main, lines 367-374
Discover ==
    /\ pc = "discover"
    /\ \E found \in DiscoverAllFiles(files) :
          /\ all_files' = found
          /\ IF found = <<>> THEN Exit(0, "no files") ELSE Running("analyze")
    /\ UNCHANGED <<argv, interactive, files, dirs, files0, dirs0, checks,
                   idx, reply, returned, analysis_results, proposal, gate, answers,
                   executions, fi, fj, outcomes>>

\* analyze_all_content, line 206: the call of analyze_content_for_category
AnalyzeCall(serviceReplies) ==
    /\ pc = "analyze"
    /\ \E r \in serviceReplies :
          /\ reply' = r
          /\ returned' = AnalyzeContentForCategory(r)
    /\ Running("store")
    /\ UNCHANGED <<argv, interactive, files, dirs, files0, dirs0, checks, all_files,
                   idx, analysis_results, proposal, gate, answers,
                   executions, fi, fj, outcomes>>

Analyze == AnalyzeCall(PipelineReplies)

\* analyze_all_content, lines 204-209: the assignment of the returned value and
\* the loop's step
Store ==
    /\ pc = "store"
    /\ analysis_results' = ResultsSet(analysis_results, all_files[idx], returned)
    /\ idx' = idx + 1
    /\ reply' = NoReply
    /\ returned' = <<>>
    /\ Running(IF idx < Len(all_files) THEN "analyze" ELSE "propose")
    /\ UNCHANGED <<argv, interactive, files, dirs, files0, dirs0, checks, all_files,
                   proposal, gate, answers, executions, fi, fj, outcomes>>

\* main, lines 386-391
Propose ==
    /\ pc = "propose"
    /\ proposal' = GenerateOrganizationProposal(analysis_results)
    /\ Running("gate")
    /\ UNCHANGED <<argv, interactive, files, dirs, files0, dirs0, checks, all_files,
                   idx, reply, returned, analysis_results, gate, answers,
                   executions, fi, fj, outcomes>>

\* main, lines 393-401
ApprovalGate ==
    /\ pc = "gate"
    /\ \E answer \in (IF Mode THEN BOOLEAN ELSE {TRUE}) :
          /\ answers' = IF Mode THEN Append(answers, answer) ELSE answers
          /\ gate' = GateDecision(Mode, answer)
    /\ IF gate' = "Approved" THEN Running("execute") ELSE Exit(0, "cancelled")
    /\ UNCHANGED <<argv, interactive, files, dirs, files0, dirs0, checks, all_files,
                   idx, reply, returned, analysis_results, proposal,
                   executions, fi, fj, outcomes>>

\* execute_organization_plan, lines 274-281.  The operating system may refuse
\* to make a directory (permissions, a read-only or full disk).
ExecuteBegin ==
    /\ pc = "execute"
    /\ executions' = executions + 1
    /\ fi' = 1
    /\ IF dry_run
       THEN /\ Running("folder")
            /\ UNCHANGED dirs
       ELSE \E refused \in BOOLEAN :
               IF refused \/ MkdirBlocked(OrganizedDirectory, FALSE)
               THEN /\ Exit(1, "uncaught exception")
                    /\ UNCHANGED dirs
               ELSE /\ Running("folder")
                    /\ dirs' = dirs \cup {OrganizedDirectory}
    /\ UNCHANGED <<argv, interactive, files, files0, dirs0, checks, all_files,
                   idx, reply, returned, analysis_results, proposal, gate, answers,
                   fj, outcomes>>

\* execute_organization_plan, lines 283-290: one folder of the proposal
FolderBegin ==
    /\ pc = "folder"
    /\ fj' = 1
    /\ LET target_folder == TargetFolder(proposal[fi].folder)
       IN IF dry_run
          THEN /\ Running("file")
               /\ UNCHANGED dirs
          ELSE \E refused \in BOOLEAN :
                  IF refused
                  THEN /\ Exit(1, "uncaught exception")
                       /\ UNCHANGED dirs
                  ELSE /\ dirs' = dirs \cup MkdirMade(target_folder)
                       /\ IF MkdirBlocked(target_folder, TRUE)
                          THEN Exit(1, "uncaught exception")
                          ELSE Running("file")
    /\ UNCHANGED <<argv, interactive, files, files0, dirs0, checks, all_files,
                   idx, reply, returned, analysis_results, proposal, gate, answers,
                   executions, fi, outcomes>>

Outcome(path, folder, kind, target, taken) ==
    [path |-> path, folder |-> folder, kind |-> kind, target |-> target, taken |-> taken]

\* The entries of a directory
Listing(dir) == {Name(p) : p \in {q \in files \cup dirs : q # <<>> /\ Parent(q) = dir}}

\* execute_organization_plan, lines 292-311: one file of the folder.  A move may
\* fail (permissions, a source that has disappeared, a full disk).
FileStep ==
    /\ pc = "file"
    /\ LET folder == proposal[fi].folder
           target_folder == TargetFolder(folder)
           file_path == proposal[fi].files[fj].path
       IN IF dry_run
          THEN /\ outcomes' = Append(outcomes,
                                     Outcome(file_path, folder, "dry-run", NoOutcomeTarget, {}))
               /\ UNCHANGED files
          ELSE \E fails \in BOOLEAN :
                  IF fails \/ file_path \notin files
                  THEN /\ outcomes' = Append(outcomes,
                                             Outcome(file_path, folder, "Error", NoOutcomeTarget, {}))
                       /\ UNCHANGED files
                  ELSE LET target_path == ResolveTarget(target_folder, file_path)
                       IN /\ files' = MovedFiles(file_path, target_path)
                          /\ outcomes' = Append(outcomes,
                                                Outcome(file_path, folder, "Moved", target_path,
                                                        Listing(target_folder)))
    /\ IF fj < Len(proposal[fi].files)
       THEN /\ fj' = fj + 1
            /\ UNCHANGED fi
            /\ Running("file")
       ELSE /\ UNCHANGED fj
            /\ IF fi < Len(proposal)
               THEN /\ fi' = fi + 1
                    /\ Running("folder")
               ELSE /\ UNCHANGED fi
                    /\ Running("summary")
    /\ UNCHANGED <<argv, interactive, dirs, files0, dirs0, checks, all_files,
                   idx, reply, returned, analysis_results, proposal, gate, answers,
                   executions>>

\* main, lines 407-415
Summary ==
    /\ pc = "summary"
    /\ Exit(0, "completed")
    /\ UNCHANGED <<argv, interactive, files, dirs, files0, dirs0, checks, all_files,
                   idx, reply, returned, analysis_results, proposal, gate, answers,
                   executions, fi, fj, outcomes>>

Next ==
    \/ CheckMode
    \/ Verify
    \/ Discover
    \/ Analyze
    \/ Store
    \/ Propose
    \/ ApprovalGate
    \/ ExecuteBegin
    \/ FolderBegin
    \/ FileStep
    \/ Summary

Spec == Init /\ [][Next]_vars

(***************************************************************************)
(* The classifier on its own: analyze_all_content and                      *)
(* generate_organization_proposal on a batch of files, the service         *)
(* replying with any text of ReplyTexts or failing.                        *)
(***************************************************************************)
ShapeTokens == {"{", "}", "p", "m"}

\* A text of the given shape, each "m" being the given members
Fill(shape, members) ==
    Concat([i \in 1..Len(shape) |->
              IF shape[i] = "m" THEN members ELSE <<Punct(shape[i])>>])

Categories == {Str("Media"), Str("media"), <<"Media", " ">>}

Subcategories ==
    {<<>>, Str("Photos"), Str("Unknown"), Str("Analysis Failed"), Str("Error"),
     Str("unknown")}

\* Objects that differ in category and subcategory, either of them absent or not
KeyMembers ==
    {<<Field("category", c), Field("subcategory", s)>> : c \in Categories, s \in Subcategories}
      \cup {<<Field("category", c)>> : c \in Categories}
      \cup {<<Field("subcategory", s)>> : s \in Subcategories}

\* Objects that differ in confidence: in range, out of range, absent, repeated
ConfidenceMembers ==
    {Members(Str("Media"), Str("Photos"), n, Str("image")) : n \in {-1, 0, 85, 100, 101}}
      \cup {<<Field("category", Str("Media")), Field("reason", Str("image"))>>,
            <<Field("confidence", 150), Field("confidence", 85)>>}

\* Every shape around one object, and every object alone
ReplyTexts ==
    {Fill(shape, Members(Str("Media"), Str("Photos"), 85, Str("image"))) :
        shape \in SeqsUpTo(ShapeTokens, MaxTextLen)}
      \cup {Fill(<<"{", "m", "}">>, members) : members \in KeyMembers \cup ConfidenceMembers}

ClassifierReplies == {FailedReply} \cup {TextReply(text) : text \in ReplyTexts}

BatchFile(i) == <<Str("f" \o ToString(i))>>

InitClassify ==
    /\ pc = "analyze"
    /\ argv = {}
    /\ interactive = TRUE
    /\ \E n \in 1..MaxBatch : all_files = [i \in 1..n |-> BatchFile(i)]
    /\ files = Range(all_files)
    /\ dirs = {}
    /\ files0 = files
    /\ dirs0 = dirs
    /\ checks = 1
    /\ idx = 1
    /\ reply = NoReply
    /\ returned = <<>>
    /\ analysis_results = <<>>
    /\ proposal = <<>>
    /\ gate = "AwaitingDecision"
    /\ answers = <<>>
    /\ executions = 0
    /\ fi = 1
    /\ fj = 1
    /\ outcomes = <<>>
    /\ exit_status = -1
    /\ ending = "running"

Classify == AnalyzeCall(ClassifierReplies)

NextClassify ==
    \/ Classify
    \/ Store
    \/ Propose

SpecClassify == InitClassify /\ [][NextClassify]_vars

(***************************************************************************)
(* Properties.                                                             *)
(***************************************************************************)
\* The proposal has been built
Proposed ==
    \/ pc \in {"gate", "execute", "folder", "file", "summary"}
    \/ pc = "exit" /\ ending \in {"cancelled", "completed", "uncaught exception"}

\* Where a path is held in the proposal: the (folder, position) pairs
AllPlaces ==
    UNION {{<<i, j>> : j \in 1..Len(proposal[i].files)} : i \in 1..Len(proposal)}

Places(path) == {pl \in AllPlaces : proposal[pl[1]].files[pl[2]].path = path}

ProposalPaths == {proposal[pl[1]].files[pl[2]].path : pl \in AllPlaces}

\* C1: once the proposal is built, it partitions the discovered files: every
\* file of discover_all_files' list is held exactly once, under exactly one
\* folder key, the proposal holds no other path, and no folder key is listed
\* twice or is empty.
PartitionInvariant ==
    Proposed =>
       /\ \A p \in Range(all_files) : Cardinality(Places(p)) = 1
       /\ ProposalPaths = Range(all_files)
       /\ \A i \in 1..Len(proposal) : Len(proposal[i].files) <= Len(all_files)
       /\ \A i, j \in 1..Len(proposal) : proposal[i].folder = proposal[j].folder => i = j

\* C1's case: three discovered files, two of which share a folder
PartitionWitness ==
    /\ pc = "gate"
    /\ Len(all_files) = 3
    /\ Len(proposal) = 2
    /\ \E i \in 1..Len(proposal) : Len(proposal[i].files) = 2

\* C5: every classification analyze_content_for_category returns has an
\* integer confidence between 0 and 100.
ConfidenceBound ==
    pc = "store" =>
       /\ "confidence" \in DOMAIN returned
       /\ returned["confidence"] \in 0..100

\* A text holds a decodable JSON object when some "{" ... "}" stretch of it
\* has nothing but members between the braces.
HoldsJsonObject(text) ==
    \E i, j \in 1..Len(text) :
       /\ i < j
       /\ text[i].k = "{"
       /\ text[j].k = "}"
       /\ \A m \in (i + 1)..(j - 1) : IsField(text[m])

Malformed(r) == r.failed \/ ~HoldsJsonObject(r.text)

\* C6: for a failed request or a response text that holds no decodable JSON
\* object, analyze_content_for_category returns category "Uncategorized" with
\* confidence 0, and the loop goes on: the value is stored for the file, the
\* files after it are requested, and every file has its classification when
\* the loop ends.
FallbackOnMalformed ==
    /\ (pc = "store" /\ Malformed(reply)) =>
          /\ {"category", "confidence"} \subseteq DOMAIN returned
          /\ returned["category"] = Str("Uncategorized")
          /\ returned["confidence"] = 0
    /\ pc \in {"analyze", "store"} =>
          /\ idx <= Len(all_files)
          /\ Len(analysis_results) = idx - 1
    /\ pc \in {"propose", "gate"} =>
          [i \in 1..Len(analysis_results) |-> analysis_results[i].path] = all_files

\* C6's case: the first file's request failed, the run went on, and the second
\* file's response holds braces around something that is no JSON object
FallbackWitness ==
    /\ pc = "store"
    /\ idx = 2
    /\ analysis_results[1].analysis = ErrorFallback
    /\ ~reply.failed
    /\ JsonMatch(reply.text) # <<0, 0>>
    /\ ~HoldsJsonObject(reply.text)
    /\ returned = ErrorFallback

\* The folder key the specification gives a classification
ExpectedKey(analysis) ==
    LET category == IF "category" \in DOMAIN analysis
                    THEN analysis["category"] ELSE Str("Uncategorized")
    IN IF \/ "subcategory" \notin DOMAIN analysis
          \/ analysis["subcategory"] = <<>>
          \/ analysis["subcategory"] \in {Str("Unknown"), Str("Analysis Failed"), Str("Error")}
       THEN category
       ELSE category \o Str("/") \o analysis["subcategory"]

\* The files, in input order, whose classification has the given folder key
FilesOfKey(key) ==
    LET Has(item) == ExpectedKey(item.analysis) = key
        items == SelectSeq(analysis_results, Has)
    IN [n \in 1..Len(items) |-> items[n].path]

\* C10: each classified file is listed under the folder key derived from its
\* classification (the category alone when the subcategory is absent, empty
\* or a sentinel, category "/" subcategory otherwise, both verbatim; a missing
\* category reads "Uncategorized"), and each folder lists exactly its files,
\* in input order.
FolderKeyDerivation ==
    pc = "gate" =>
       /\ \A n \in 1..Len(analysis_results) :
             \E i \in 1..Len(proposal) :
                proposal[i].folder = ExpectedKey(analysis_results[n].analysis)
       /\ \A i \in 1..Len(proposal) :
             [j \in 1..Len(proposal[i].files) |-> proposal[i].files[j].path]
                = FilesOfKey(proposal[i].folder)

\* C10's case: two files under one folder key, the first with a sentinel
\* subcategory that is dropped, the second with no subcategory at all, while a
\* category that differs only in case would have made another folder
FolderKeyWitness ==
    /\ pc = "gate"
    /\ Len(analysis_results) = 2
    /\ Len(proposal) = 1
    /\ proposal[1].folder = Str("Media")
    /\ "subcategory" \in DOMAIN analysis_results[1].analysis
    /\ analysis_results[1].analysis["subcategory"] = Str("Error")
    /\ "subcategory" \notin DOMAIN analysis_results[2].analysis
    /\ proposal[1].files[1].path = all_files[1]
    /\ proposal[1].files[2].path = all_files[2]

\* How many lines the engine printed for a path
Reported(path) == Cardinality({n \in 1..Len(outcomes) : outcomes[n].path = path})

\* The folder key the proposal lists a path under
FolderOf(path) ==
    proposal[(CHOOSE place \in Places(path) : TRUE)[1]].folder

\* C2: with --dry-run the filesystem stays as it was at the start in every
\* state of the run (no directory made, organized_by_content included, no file
\* moved), execute_organization_plan cannot fail, and when it is done every
\* file of the proposal has exactly one printed line, a dry-run line naming
\* the file's folder.
DryRunPurity ==
    "--dry-run" \in argv =>
       /\ files = files0
       /\ dirs = dirs0
       /\ ending # "uncaught exception"
       /\ \A n \in 1..Len(outcomes) :
             /\ outcomes[n].kind = "dry-run"
             /\ Places(outcomes[n].path) # {}
             /\ outcomes[n].folder = FolderOf(outcomes[n].path)
       /\ \A p \in ProposalPaths : Reported(p) <= 1
       /\ (pc = "exit" /\ executions = 1) =>
             \A p \in ProposalPaths : Reported(p) = 1

\* C2's case: a dry run of a three-file proposal has ended, in a tree that had
\* no organized_by_content directory, and still has none
DryRunWitness ==
    /\ "--dry-run" \in argv
    /\ pc = "exit"
    /\ ending = "completed"
    /\ Len(outcomes) = 3
    /\ Len(proposal) = 2
    /\ ~Exists(OrganizedDirectory)

\* The first of name, stem_1suffix, stem_2suffix, ... that is not among the
\* taken names
FirstFree(taken, name) ==
    IF name \notin taken THEN name
    ELSE LET free == {k \in 1..(Cardinality(taken) + 1) :
                        CounterName(Stem(name), k, Suffix(name)) \notin taken}
         IN CounterName(Stem(name), Min(free), Suffix(name))

Moves == {n \in 1..Len(outcomes) : outcomes[n].kind = "Moved"}

\* C3: every move goes to the target folder, under the first of name,
\* stem_1suffix, stem_2suffix, ... that no entry of the folder had when the
\* file was handled, entries of earlier moves of the same run included; so no
\* entry is overwritten (no file is lost, no two moves share a target, all
\* that was there at the start and was not moved is still there).
CollisionResolution ==
    /\ \A n \in Moves :
          /\ Parent(outcomes[n].target) = TargetFolder(outcomes[n].folder)
          /\ Name(outcomes[n].target) = FirstFree(outcomes[n].taken, Name(outcomes[n].path))
          /\ Name(outcomes[n].target) \notin outcomes[n].taken
          /\ outcomes[n].target \in files
    /\ \A m, n \in Moves : outcomes[m].target = outcomes[n].target => m = n
    /\ Cardinality(files) = Cardinality(files0)
    /\ dirs0 \subseteq dirs
    /\ \A p \in files0 : (\A n \in Moves : outcomes[n].path # p) => p \in files

\* C3's case: three files named report.txt moved to one folder that was empty
\* got report.txt, report_1.txt and report_2.txt, in input order
CollisionWitness ==
    /\ pc = "exit"
    /\ Len(outcomes) = 3
    /\ Moves = {1, 2, 3}
    /\ \A n \in 1..3 : Name(outcomes[n].path) = ReportTxt
    /\ \A n \in 1..3 : outcomes[n].path = all_files[n]
    /\ \A n \in 1..3 : outcomes[n].folder = Str("Media")
    /\ Name(outcomes[1].target) = <<"report", ".txt">>
    /\ Name(outcomes[2].target) = <<"report", "_1", ".txt">>
    /\ Name(outcomes[3].target) = <<"report", "_2", ".txt">>

\* C4: a run started with --headless never prompts, and unless it ends at the
\* preflight check or for want of files it reaches Approved and calls
\* execute_organization_plan.
HeadlessBypass ==
    "--headless" \in argv =>
       /\ answers = <<>>
       /\ (pc = "exit" /\ ending \notin {"preflight failed", "no files"}) =>
             /\ gate = "Approved"
             /\ executions = 1

\* C7: a run that executes for real attempts every file of the proposal,
\* whatever fails on the way: when it has ended, each file has its printed
\* line (moved or error).
PartialFailure ==
    ("--dry-run" \notin argv /\ pc = "exit" /\ executions = 1) =>
       \A p \in ProposalPaths : Reported(p) = 1

\* C8: in interactive mode, as long as no affirmative answer was given the
\* filesystem is as it was at the start and execute_organization_plan has
\* not been called; there is one decision at most, and a negative one ends the
\* run in Rejected with status 0.
ApprovalGateOrdering ==
    "--headless" \notin argv =>
       /\ Len(answers) <= 1
       /\ (answers = <<>> \/ ~answers[Len(answers)]) =>
             /\ files = files0
             /\ dirs = dirs0
             /\ executions = 0
             /\ outcomes = <<>>
       /\ answers = <<>> => gate = "AwaitingDecision"
       /\ answers = <<FALSE>> =>
             /\ gate = "Rejected"
             /\ pc = "exit"
             /\ exit_status = 0
       /\ answers = <<TRUE>> => gate = "Approved"
       /\ pc \in {"execute", "folder", "file", "summary"} => answers = <<TRUE>>

\* C8's case: the user declined a three-file proposal
ApprovalGateWitness ==
    /\ "--headless" \notin argv
    /\ "--dry-run" \notin argv
    /\ pc = "exit"
    /\ answers = <<FALSE>>
    /\ Len(all_files) = 3
    /\ Len(proposal) = 2

\* C9: the availability check runs once, before discovery; when it fails the
\* run ends with status 1 and nothing was discovered, classified or moved; and
\* once the arguments are accepted, a non-zero status means that it failed.
PreflightFailFast ==
    /\ checks <= 1
    /\ pc \in {"main", "verify"} => checks = 0 /\ all_files = <<>>
    /\ pc \notin {"main", "verify", "exit"} => checks = 1
    /\ ending = "preflight failed" =>
          /\ exit_status = 1
          /\ all_files = <<>>
          /\ analysis_results = <<>>
          /\ outcomes = <<>>
          /\ files = files0
          /\ dirs = dirs0
    /\ (pc = "exit" /\ exit_status # 0 /\ ending # "mode conflict") =>
          ending = "preflight failed"

(***************************************************************************)
(* A dry run followed by the real run it announces ("Remove --dry-run flag *)
(* to execute the organization"): the same proposal is executed again on   *)
(* the tree the dry run left, and the lines of both runs follow each other *)
(* on the console.                                                         *)
(***************************************************************************)
Rerun ==
    /\ pc = "exit"
    /\ ending = "completed"
    /\ dry_run
    /\ executions = 1
    /\ argv' = argv \ {"--dry-run"}
    /\ pc' = "execute"
    /\ exit_status' = -1
    /\ ending' = "running"
    /\ UNCHANGED <<interactive, files, dirs, files0, dirs0, checks, all_files,
                   idx, reply, returned, analysis_results, proposal, gate, answers,
                   executions, fi, fj, outcomes>>

NextRerun ==
    \/ Next
    \/ Rerun

SpecRerun == Init /\ [][NextRerun]_vars

\* The name a printed line gives the file: lines 305, 308 and 311 all print
\* file_path.name and the folder, never the target's name
PrintedName(outcome) == Name(outcome.path)

\* C11: after a dry run and the real run of the same proposal on the same
\* tree, the dry run's line for a file names the folder and the name under
\* which the real run moved that file.
DryRunEquivalence ==
    executions = 2 =>
       LET N == Cardinality(ProposalPaths)
       IN \A n \in 1..N :
             (N + n <= Len(outcomes) /\ outcomes[N + n].kind = "Moved") =>
                /\ outcomes[n].kind = "dry-run"
                /\ outcomes[n].path = outcomes[N + n].path
                /\ outcomes[n].folder = outcomes[N + n].folder
                /\ TargetFolder(outcomes[n].folder) = Parent(outcomes[N + n].target)
                /\ PrintedName(outcomes[n]) = Name(outcomes[N + n].target)

====
